---- MODULE Spec2Model ----
(***************************************************************************)
(* A model of rDir (src/src/main.rs, src/src/symbols.rs): argument         *)
(* parsing, the flat listing (list_dir) with its column layout, the tree   *)
(* walk (print_tree), the Counts accumulator and the report.               *)
(*                                                                         *)
(* Strings are sequences of bytes (0..255), as the code reads them with    *)
(* as_bytes(); file names of the modelled directory tree are ASCII.        *)
(***************************************************************************)
EXTENDS Integers, Sequences, FiniteSets, TLC

VARIABLES
    args,       \* the command line after the program name (a sequence of arguments)
    env,        \* the value of COLUMNS: "unset" or a string
    argi,       \* index of the next argument main's while loop reads
    opts,       \* the Options under construction / in use
    paths,      \* the root paths collected by main
    pc,         \* main's position: "parse", "root", "run", "report", "done", "exit1"
    idx,        \* index into paths of the root being processed (1-based)
    counts,     \* the Counts of the root being processed
    stack,      \* the call stack of list_dir / print_tree frames, innermost last
    out,        \* standard output, one record per printed line
    err,        \* the diagnostic stream, one record per printed line
    calls,      \* every fs::read_dir call made so far: <<root index, directory>>
    text,       \* the string handed to visible_len (string specification)
    vlen,       \* the result of visible_len(text), or -1 before the call
    stdout,     \* the lines git status --porcelain wrote (status specification)
    lineno,     \* the number of lines git_statuses has gone through
    map,        \* the HashMap git_statuses builds
    got         \* the last lookup in the map: <<path, state>>, <<>> before any

vars ==
    <<args, env, argi, opts, paths, pc, idx, counts, stack, out, err, calls, text, vlen,
      stdout, lineno, map, got>>

(***************************************************************************)
(* Bounds of the model.                                                    *)
(***************************************************************************)
MaxArgs == 3      \* arguments on one command line
MaxFrags == 6     \* fragments handed to the column layout (layout specification)
MaxItems == 4     \* characters and color codes in one string (string specification)

(***************************************************************************)
(* Bytes and strings.                                                      *)
(***************************************************************************)
ESC == 27
LBRACKET == 91
LOWER_M == 109
SPACE == 32

\* String::to_lowercase on an ASCII string: A..Z (65..90) map to a..z.
ToLowerBytes(s) == [i \in 1..Len(s) |-> IF s[i] >= 65 /\ s[i] <= 90 THEN s[i] + 32 ELSE s[i]]

\* Ord for String: lexicographic comparison of the bytes.
RECURSIVE StrCmpFrom(_, _, _)
StrCmpFrom(a, b, i) ==
    IF i > Len(a) /\ i > Len(b) THEN "Equal"
    ELSE IF i > Len(a) THEN "Less"
    ELSE IF i > Len(b) THEN "Greater"
    ELSE IF a[i] < b[i] THEN "Less"
    ELSE IF a[i] > b[i] THEN "Greater"
    ELSE StrCmpFrom(a, b, i + 1)

StrCmp(a, b) == StrCmpFrom(a, b, 1)

\* The while loop of visible_len from position i (1-based) with the loop's
\* locals len and in_escape.
RECURSIVE VisLoop(_, _, _, _)
VisLoop(bytes, i, len, in_escape) ==
    IF i > Len(bytes) THEN len
    ELSE IF in_escape
         THEN VisLoop(bytes, i + 1, len, bytes[i] # LOWER_M)
    ELSE IF bytes[i] = ESC
         THEN IF i + 1 <= Len(bytes) /\ bytes[i + 1] = LBRACKET
              THEN VisLoop(bytes, i + 2, len, TRUE)
              ELSE VisLoop(bytes, i + 1, len + 1, FALSE)
    ELSE VisLoop(bytes, i + 1, len + 1, FALSE)

visible_len(s) == VisLoop(s, 1, 0, FALSE)

(***************************************************************************)
(* The directory tree the program is run on.  Node 0 is "no such path".    *)
(*   .            (1)                                                      *)
(*   |-- a.txt    (2)  regular file                                        *)
(*   |-- B.txt    (3)  regular file                                        *)
(*   `-- z        (4)  directory                                           *)
(*       |-- .h   (5)  regular file, hidden                                *)
(*       |-- k    (6)  regular file                                        *)
(*       |-- K    (7)  regular file, same modification time as k           *)
(*       `-- m    (8)  directory                                           *)
(*           |-- n  (9)   directory                                        *)
(*           |   |-- o  (12) directory                                     *)
(*           |   |   `-- p (14) regular file                               *)
(*           |   |-- q  (13) named pipe                                    *)
(*           |   |-- e  (16) symlink whose target cannot be read           *)
(*           |   |-- b  (17) symlink to x, which does not exist            *)
(*           |   `-- l  (18) symlink to .. (a cycle)                       *)
(*           |-- c  (10)  symlink to n                                     *)
(*           |-- g  (11)  entry whose metadata cannot be read              *)
(*           `-- u  (15)  directory that cannot be read                    *)
(*               `-- v (19) regular file                                   *)
(* The process runs with "." (1) as its current directory.                 *)
(***************************************************************************)
Node(nm, par, kd, mt) ==
    [name |-> nm, parent |-> par, kind |-> kd, mtime |-> mt, meta_ok |-> TRUE,
     readable |-> TRUE, link_ok |-> TRUE, target |-> <<>>,
     ext |-> "", exec |-> FALSE]

FS ==
    <<  Node(<<46>>, 0, "dir", 1),                                      \* .
        [Node(<<97, 46, 116, 120, 116>>, 1, "file", 5) EXCEPT !.ext = "txt"],  \* a.txt
        [Node(<<66, 46, 116, 120, 116>>, 1, "file", 5) EXCEPT !.ext = "txt"],  \* B.txt
        Node(<<122>>, 1, "dir", 3),                                     \* z
        Node(<<46, 104>>, 4, "file", 6),                                \* .h
        Node(<<107>>, 4, "file", 4),                                    \* k
        Node(<<75>>, 4, "file", 4),                                     \* K
        Node(<<109>>, 4, "dir", 9),                                     \* m
        Node(<<110>>, 8, "dir", 2),                                     \* n
        [Node(<<99>>, 8, "symlink", 7) EXCEPT !.target = <<110>>],      \* c -> n
        [Node(<<103>>, 8, "file", 1) EXCEPT !.meta_ok = FALSE],         \* g
        Node(<<111>>, 9, "dir", 1),                                     \* o
        Node(<<113>>, 9, "fifo", 1),                                    \* q
        [Node(<<112>>, 12, "file", 1) EXCEPT !.exec = TRUE],        \* p
        [Node(<<117>>, 8, "dir", 8) EXCEPT !.readable = FALSE],         \* u
        [Node(<<101>>, 9, "symlink", 1) EXCEPT !.link_ok = FALSE],      \* e
        [Node(<<98>>, 9, "symlink", 1) EXCEPT !.target = <<120>>],      \* b -> x
        [Node(<<108>>, 9, "symlink", 1) EXCEPT !.target = <<46, 46>>],  \* l -> ..
        Node(<<118>>, 15, "file", 1)                                    \* v
    >>

Nodes == 1..Len(FS)

\* What a root path given on the command line resolves to.
PathNode(p) == CASE p = "." -> 1 [] p = "z" -> 4 [] OTHER -> 0

\* fs::read_dir(dir): Ok exactly for a readable directory.
ReadDirOk(d) == d \in Nodes /\ FS[d].kind = "dir" /\ FS[d].readable

\* The entries a successful fs::read_dir(dir) yields, in no particular order.
Children(d) == {n \in Nodes : FS[n].parent = d}

\* A test on the metadata of what a symlink points to.
IsDirFollowing(n) == FS[n].kind = "dir" \/ (FS[n].kind = "symlink" /\ FS[n].link_ok)

\* metadata.file_type().is_dir(), the metadata being fs::symlink_metadata's.
IsDir(n) == FS[n].kind = "dir"

\* file_name_str.starts_with('.')
StartsWithDot(n) == Len(FS[n].name) > 0 /\ FS[n].name[1] = 46

(***************************************************************************)
(* Options and Counts.                                                     *)
(***************************************************************************)
NoDepth == [some |-> FALSE, v |-> 0]
SomeDepth(n) == [some |-> TRUE, v |-> n]

\* Options::default()
DefaultOptions ==
    [one_per_line |-> FALSE, all |-> FALSE, almost_all |-> FALSE, dirs_only |-> FALSE,
     files_only |-> FALSE, long |-> FALSE, report |-> FALSE, tree_depth |-> NoDepth,
     git_status |-> FALSE, sort_dirs_first |-> FALSE, sort_files_first |-> FALSE,
     sort_time |-> FALSE]

CountFields ==
    {"dirs", "files", "symlinks", "pipes", "sockets", "block_devices", "char_devices",
     "broken_symlinks"}

\* Counts::default()
ZeroCounts == [f \in CountFields |-> 0]

\* The hidden-file filter of list_dir and print_tree: TRUE when the entry goes on.
PassesHidden(n, o) == o.all \/ ~StartsWithDot(n)

\* The dirs_only / files_only filters of list_dir and print_tree: TRUE when the
\* entry goes on (neither `continue` is taken).
PassesTypeFiltersNoFilesOnly(n, o) == ~(o.dirs_only /\ ~IsDir(n))

PassesTypeFilters(n, o) ==
    /\ ~(o.dirs_only /\ ~IsDir(n))
    /\ ~(o.files_only /\ IsDir(n))

\* The directory relative paths are resolved from: the one the process runs in.
CWD == 1

\* Path::exists for the one-component path t resolved from directory dir.
ExistsFrom(dir, t) == t = <<46, 46>> \/ \E n \in Children(dir) : FS[n].name = t

\* fs::read_link(path).map_or(true, |tgt| tgt.exists()): the target as stored in
\* the link, handed to exists() as it is.
SymlinkLive(n) == IF FS[n].link_ok THEN ExistsFrom(CWD, FS[n].target) ELSE TRUE

\* The Counts field the if/else chain of list_dir and print_tree increments.
CountField(n) ==
    CASE FS[n].kind = "dir" -> "dirs"
      [] FS[n].kind = "symlink" -> IF SymlinkLive(n) THEN "symlinks" ELSE "broken_symlinks"
      [] FS[n].kind = "fifo" -> "pipes"
      [] FS[n].kind = "socket" -> "sockets"
      [] FS[n].kind = "block" -> "block_devices"
      [] FS[n].kind = "char" -> "char_devices"
      [] OTHER -> "files"

\* A classification that increments a second field for directories too.
BumpTwice(c, n) ==
    IF IsDir(n) THEN [c EXCEPT !["dirs"] = @ + 1, !["files"] = @ + 1]
    ELSE [c EXCEPT ![CountField(n)] = @ + 1]

Bump(c, n) == [c EXCEPT ![CountField(n)] = @ + 1]

(***************************************************************************)
(* Sorting.                                                                *)
(***************************************************************************)
Reverse(ord) == CASE ord = "Less" -> "Greater" [] ord = "Greater" -> "Less" [] OTHER -> "Equal"

IntCmp(x, y) == IF x < y THEN "Less" ELSE IF x > y THEN "Greater" ELSE "Equal"

\* The comparator without the lowercasing of the names.
NameCmpCaseSensitive(a, b) == StrCmp(FS[a].name, FS[b].name)

\* a.entry.file_name().to_string_lossy().to_lowercase() compared with cmp
NameCmp(a, b) == StrCmp(ToLowerBytes(FS[a].name), ToLowerBytes(FS[b].name))

\* The keys with the modification times compared oldest first.
TimeThenNameOldestFirst(a, b, o) ==
    IF o.sort_time /\ IntCmp(FS[a].mtime, FS[b].mtime) # "Equal"
    THEN IntCmp(FS[a].mtime, FS[b].mtime)
    ELSE NameCmp(a, b)

\* The time and name keys shared by both closures.
TimeThenName(a, b, o) ==
    IF o.sort_time /\ IntCmp(FS[b].mtime, FS[a].mtime) # "Equal"
    THEN IntCmp(FS[b].mtime, FS[a].mtime)
    ELSE NameCmp(a, b)

\* The closure list_dir hands to sort_by.
list_dir_cmp(a, b, o) ==
    IF o.sort_dirs_first /\ IsDir(a) # IsDir(b)
    THEN (IF IsDir(a) THEN "Less" ELSE "Greater")
    ELSE IF o.sort_files_first /\ IsDir(a) # IsDir(b)
    THEN (IF IsDir(a) THEN "Greater" ELSE "Less")
    ELSE TimeThenName(a, b, o)

\* The closure print_tree hands to sort_by.
print_tree_cmp(a, b, o) ==
    IF IsDir(a) # IsDir(b)
    THEN (IF IsDir(a) THEN "Less" ELSE "Greater")
    ELSE TimeThenName(a, b, o)

Cmp(fn, a, b, o) == IF fn = "flat" THEN list_dir_cmp(a, b, o) ELSE print_tree_cmp(a, b, o)

\* Insertion of x into the sorted s, behind every element that is not Greater.
RECURSIVE InsertPos(_, _, _, _, _)
InsertPos(s, x, j, fn, o) ==
    IF j > 0 /\ Cmp(fn, s[j], x, o) = "Greater" THEN InsertPos(s, x, j - 1, fn, o) ELSE j

InsertSorted(s, x, fn, o) ==
    LET j == InsertPos(s, x, Len(s), fn, o)
    IN  SubSeq(s, 1, j) \o <<x>> \o SubSeq(s, j + 1, Len(s))

\* entries.sort_by(...): a stable sort.  Each insertion is bound to x, so that
\* its result is computed once.
RECURSIVE SortFrom(_, _, _, _, _)
SortFrom(done, s, i, fn, o) ==
    IF i > Len(s) THEN done
    ELSE CHOOSE r \in {SortFrom(x, s, i + 1, fn, o) :
                          x \in {InsertSorted(done, s[i], fn, o)}} : TRUE

\* The entries left in the order they were read.
Unsorted(s, fn, o) == s

SortBy(s, fn, o) == SortFrom(<<>>, s, 1, fn, o)


(***************************************************************************)
(* The short display fragment (build_short_display) with the dark scheme.  *)
(***************************************************************************)
\* "\x1b[" digits "m"
Color(digits) == <<ESC, LBRACKET>> \o digits \o <<LOWER_M>>

\* ColorScheme::dark()
Dark ==
    [reset |-> Color(<<48>>), dir |-> Color(<<51, 52>>), symlink |-> Color(<<51, 54>>),
     executable |-> Color(<<51, 50>>), file |-> Color(<<51, 55>>), pipe |-> Color(<<51, 51>>),
     socket |-> Color(<<51, 53>>), block_device |-> Color(<<51, 52>>),
     char_device |-> Color(<<51, 51>>), broken_symlink |-> Color(<<51, 49>>),
     git_new |-> Color(<<51, 50>>), git_modified |-> Color(<<51, 52>>),
     git_deleted |-> Color(<<51, 49>>), git_renamed |-> Color(<<51, 51>>),
     git_untracked |-> Color(<<57, 48>>), git_ignored |-> Color(<<57, 48>>)]

\* symbols::get_file_icon, as UTF-8 bytes
get_file_icon(n) ==
    CASE FS[n].kind = "dir" -> <<240, 159, 147, 129>>
      [] FS[n].kind = "symlink" -> <<240, 159, 148, 151>>
      [] FS[n].kind = "fifo" -> <<226, 148, 130>>
      [] FS[n].kind = "socket" -> <<240, 159, 148, 140>>
      [] FS[n].kind = "block" -> <<226, 172, 155>>
      [] FS[n].kind = "char" -> <<240, 159, 147, 159>>
      [] FS[n].ext = "txt" -> <<240, 159, 147, 132>>
      [] OTHER -> <<240, 159, 147, 132>>

\* The color selection build_short_display makes for the icon and for the name.
EntryColor(n) ==
    CASE FS[n].kind = "dir" -> Dark.dir
      [] FS[n].kind = "symlink" -> IF SymlinkLive(n) THEN Dark.symlink ELSE Dark.broken_symlink
      [] FS[n].kind = "fifo" -> Dark.pipe
      [] FS[n].kind = "socket" -> Dark.socket
      [] FS[n].kind = "block" -> Dark.block_device
      [] FS[n].kind = "char" -> Dark.char_device
      [] FS[n].exec -> Dark.executable
      [] OTHER -> Dark.file

\* The status marker of build_short_display.
GitMarker(git_state) ==
    CASE git_state = "Added" -> Dark.git_new \o <<65>> \o Dark.reset
      [] git_state = "Modified" -> Dark.git_modified \o <<77>> \o Dark.reset
      [] git_state = "Deleted" -> Dark.git_deleted \o <<68>> \o Dark.reset
      [] git_state = "Renamed" -> Dark.git_renamed \o <<82>> \o Dark.reset
      [] git_state = "TypeChanged" -> Dark.git_renamed \o <<84>> \o Dark.reset
      [] git_state = "Untracked" -> Dark.git_untracked \o <<63>> \o Dark.reset
      [] git_state = "Ignored" -> Dark.git_ignored \o <<73>> \o Dark.reset
      [] OTHER -> <<SPACE>>

build_short_display(n, git_state) ==
    GitMarker(git_state) \o <<SPACE>>
    \o EntryColor(n) \o get_file_icon(n) \o Dark.reset \o <<SPACE>>
    \o EntryColor(n) \o FS[n].name
    \o (IF FS[n].kind = "symlink" /\ FS[n].link_ok
        THEN Dark.reset \o <<SPACE, 45, 62, SPACE>> \o EntryColor(n) \o FS[n].target
        ELSE <<>>)
    \o Dark.reset

(***************************************************************************)
(* The column layout of list_dir.                                          *)
(***************************************************************************)
DEFAULT_WIDTH == 80

\* env::var("COLUMNS") parsed as usize, 80 when unset or unparseable.
TermWidth(e) ==
    CASE e = "0" -> 0
      [] e = "10" -> 10
      [] e = "16" -> 16
      [] e = "30" -> 30
      [] OTHER -> DEFAULT_WIDTH

Max(a, b) == IF a >= b THEN a ELSE b

RECURSIVE MaxLenFrom(_, _, _)
MaxLenFrom(disp, i, m) ==
    IF i > Len(disp) THEN m ELSE MaxLenFrom(disp, i + 1, Max(m, visible_len(disp[i])))

\* max_len after the loop over the entries
MaxLen(disp) == MaxLenFrom(disp, 1, 0)

\* A column width without the two columns of gap.
ColWidthNoGap(disp) == MaxLen(disp)

\* let col_width = max_len + 2
ColWidth(disp) == MaxLen(disp) + 2

\* A column count rounded up instead of down.
ColsRoundedUp(disp, term_width, one_per_line) ==
    IF one_per_line THEN 1
    ELSE IF (term_width + ColWidth(disp) - 1) \div ColWidth(disp) = 0 THEN 1
    ELSE (term_width + ColWidth(disp) - 1) \div ColWidth(disp)

Cols(disp, term_width, one_per_line) ==
    IF one_per_line THEN 1
    ELSE IF ColWidth(disp) = 0 THEN 1
    ELSE IF term_width \div ColWidth(disp) = 0 THEN 1
    ELSE term_width \div ColWidth(disp)

Rows(n, cols) == (n + cols - 1) \div cols

\* A row-major placement.
PlaceIndexRowMajor(r, c, rows) == c + r * rows

\* let idx = r + c * rows
PlaceIndex(r, c, rows) == r + c * rows

\* The cells of row r (0-based): for each column whose index is below the number
\* of fragments, the index printed and the padding that follows it.
RECURSIVE RowCellsFrom(_, _, _, _, _)
RowCellsFrom(disp, r, c, cols, rows) ==
    IF c >= cols THEN <<>>
    ELSE (IF PlaceIndex(r, c, rows) < Len(disp)
          THEN << [i |-> PlaceIndex(r, c, rows),
                   pad |-> IF c + 1 < cols
                           THEN ColWidth(disp) - visible_len(disp[PlaceIndex(r, c, rows) + 1])
                           ELSE 0] >>
          ELSE <<>>)
         \o RowCellsFrom(disp, r, c + 1, cols, rows)

RowCells(disp, r, cols, rows) == RowCellsFrom(disp, r, 0, cols, rows)


(***************************************************************************)
(* The command line.  An argument is head, then '=' when eq, then val:     *)
(* "--tree=2" is [head |-> "--tree", eq |-> TRUE, val |-> "2"].            *)
(***************************************************************************)
Arg(h) == [head |-> h, eq |-> FALSE, val |-> ""]
TreeEq(v) == [head |-> "--tree", eq |-> TRUE, val |-> v]

\* The arguments a command line of the model is made of, in the order they
\* are given when present.
ArgList ==
    << Arg("-1"), Arg("-a"), Arg("-d"), Arg("-f"), Arg("-l"), Arg("--report"),
       Arg("--gs"), Arg("--sd"), Arg("--sf"), Arg("-t"),
       Arg("--tree"), TreeEq(""), TreeEq("-1"), TreeEq("0"), TreeEq("1"), TreeEq("2"),
       TreeEq("x"),
       Arg("."), Arg("nope"), Arg("z") >>

CommandLines ==
    { [i \in 1..Len(pick) |-> ArgList[pick[i]]] :
        pick \in { q \in UNION { [1..k -> 1..Len(ArgList)] : k \in 0..MaxArgs } :
                     \A i \in 1..Len(q) : \A j \in 1..Len(q) : i < j => q[i] < q[j] } }

USIZE_MAX == 2147483647
DEFAULT_DEPTH == 3

\* val.parse::<isize>() on the values the model's command lines hold
ParseIsize(v) ==
    CASE v = "-1" -> [ok |-> TRUE, num |-> -1]
      [] v = "0" -> [ok |-> TRUE, num |-> 0]
      [] v = "1" -> [ok |-> TRUE, num |-> 1]
      [] v = "2" -> [ok |-> TRUE, num |-> 2]
      [] v = "3" -> [ok |-> TRUE, num |-> 3]
      [] OTHER -> [ok |-> FALSE, num |-> 0]

\* The "--tree" arm of main's match: the new tree_depth, or an exit.
TreeDepthArg(a) ==
    IF ~a.eq /\ a.val = "" THEN [exit |-> FALSE, depth |-> SomeDepth(DEFAULT_DEPTH)]
    ELSE IF a.eq
    THEN (IF a.val = "" THEN [exit |-> FALSE, depth |-> SomeDepth(DEFAULT_DEPTH)]
          ELSE IF ParseIsize(a.val).ok
          THEN (IF ParseIsize(a.val).num <= 0
                THEN [exit |-> FALSE, depth |-> NoDepth]
                ELSE [exit |-> FALSE, depth |-> SomeDepth(ParseIsize(a.val).num)])
          ELSE [exit |-> TRUE, depth |-> NoDepth])
    ELSE [exit |-> TRUE, depth |-> NoDepth]

\* One arm of main's match: the options, the paths and whether the process exits.
MatchArg(o, ps, a) ==
    CASE a.head = "-1" -> [opts |-> [o EXCEPT !.one_per_line = TRUE], paths |-> ps, exit |-> FALSE]
      [] a.head = "-a" -> [opts |-> [o EXCEPT !.all = TRUE], paths |-> ps, exit |-> FALSE]
      [] a.head = "-d" -> [opts |-> [o EXCEPT !.dirs_only = TRUE], paths |-> ps, exit |-> FALSE]
      [] a.head = "-f" -> [opts |-> [o EXCEPT !.files_only = TRUE], paths |-> ps, exit |-> FALSE]
      [] a.head = "-l" -> [opts |-> [o EXCEPT !.long = TRUE], paths |-> ps, exit |-> FALSE]
      [] a.head = "--report" -> [opts |-> [o EXCEPT !.report = TRUE], paths |-> ps, exit |-> FALSE]
      [] a.head = "--tree" ->
            [opts |-> IF TreeDepthArg(a).exit THEN o
                      ELSE [o EXCEPT !.tree_depth = TreeDepthArg(a).depth],
             paths |-> ps, exit |-> TreeDepthArg(a).exit]
      [] a.head = "--gs" -> [opts |-> [o EXCEPT !.git_status = TRUE], paths |-> ps, exit |-> FALSE]
      [] a.head = "--sd" -> [opts |-> [o EXCEPT !.sort_dirs_first = TRUE], paths |-> ps, exit |-> FALSE]
      [] a.head = "--sf" -> [opts |-> [o EXCEPT !.sort_files_first = TRUE], paths |-> ps, exit |-> FALSE]
      [] a.head = "-t" -> [opts |-> [o EXCEPT !.sort_time = TRUE], paths |-> ps, exit |-> FALSE]
      [] OTHER -> [opts |-> o, paths |-> Append(ps, a.head), exit |-> FALSE]

(***************************************************************************)
(* Calls of list_dir and print_tree.                                       *)
(***************************************************************************)
\* The locals of one call of list_dir (fn = "flat") or print_tree (fn = "tree")
\* whose fs::read_dir succeeded.
Frame(fn, dir, prefix, depth) ==
    [fn |-> fn, dir |-> dir, prefix |-> prefix, depth |-> depth,
     remaining |-> Children(dir),   \* entries the read_dir iterator has yet to yield
     raw |-> <<>>,                  \* entries as pushed, kept until the print loop starts
     entries |-> <<>>,              \* entries
     phase |-> "read",              \* "read": the read loop; "print": the print loop
     i |-> 0,                       \* loop index of the print loop (i, or r)
     disp |-> <<>>,                 \* display_strings
     width |-> 0,                   \* term_width
     git |-> 0]                     \* git_map: the root it was built for, 0 when empty

\* A call that unwinds every caller when fs::read_dir fails.
CalledAbortsWalk(stk, fn, dir, prefix, depth) ==
    IF ReadDirOk(dir) THEN Append(stk, Frame(fn, dir, prefix, depth)) ELSE <<>>

\* The stack after a call: a new frame, or none when fs::read_dir fails.
Called(stk, fn, dir, prefix, depth) ==
    IF ReadDirOk(dir) THEN Append(stk, Frame(fn, dir, prefix, depth)) ELSE stk

\* A call that fails in silence.
ReportedNothing(er, dir, ri) == er

\* The diagnostic stream after a call: "cannot access" when fs::read_dir fails.
Reported(er, dir, ri) ==
    IF ReadDirOk(dir) THEN er ELSE Append(er, [kind |-> "cannot_access", dir |-> dir, root |-> ri])

\* A mapping built once, for the first root, and used for every root.
GitMapOfFirstRoot(o, ri) == IF o.git_status THEN 1 ELSE 0

\* The git_map main (tree) or list_dir (flat) builds for the root with index ri:
\* git_statuses(path) with --gs, HashMap::new() without.  The mapping is known
\* by the root it was built for; the trees of the model have nothing to report,
\* so every lookup in it gives GitState::None.
GitMapOf(o, ri) == IF o.git_status THEN ri ELSE 0

\* The stack after a call made on a stack of n frames, the new frame (if there
\* is one) holding the mapping g.
WithGit(stk, n, g) == IF Len(stk) = n + 1 THEN [stk EXCEPT ![n + 1].git = g] ELSE stk

Top == stack[Len(stack)]
Below == SubSeq(stack, 1, Len(stack) - 1)

\* The depth print_tree recurses with for a displayed directory: a record
\* [go, depth], go = FALSE when the directory is not descended into.
DescendOffByOne(depth) ==
    IF depth > 0 THEN [go |-> TRUE, depth |-> depth - 1]
    ELSE [go |-> FALSE, depth |-> 0]

Descend(depth) ==
    IF depth > 1 THEN [go |-> TRUE, depth |-> depth - 1]
    ELSE IF depth = USIZE_MAX THEN [go |-> TRUE, depth |-> USIZE_MAX]
    ELSE [go |-> FALSE, depth |-> 0]

\* The mode main picks for a root: the two tree branches and the flat one.
Mode(o) ==
    IF o.tree_depth.some THEN [fn |-> "tree", depth |-> o.tree_depth.v]
    ELSE IF o.tree_depth.some THEN [fn |-> "tree", depth |-> USIZE_MAX]
    ELSE [fn |-> "flat", depth |-> 0]

\* The parts print_report joins, in its order; nothing is printed when empty.
ReportOrder ==
    <<"dirs", "files", "symlinks", "broken_symlinks", "pipes", "sockets", "block_devices",
      "char_devices">>

RECURSIVE ReportPartsFrom(_, _)
ReportPartsFrom(c, k) ==
    IF k > Len(ReportOrder) THEN <<>>
    ELSE (IF c[ReportOrder[k]] > 0 THEN << <<ReportOrder[k], c[ReportOrder[k]]>> >> ELSE <<>>)
         \o ReportPartsFrom(c, k + 1)

ReportParts(c) == ReportPartsFrom(c, 1)

(***************************************************************************)
(* The program: main.                                                      *)
(***************************************************************************)
Init ==
    /\ args \in CommandLines
    /\ env = "unread"
    /\ argi = 1
    /\ opts = DefaultOptions
    /\ paths = <<>>
    /\ pc = "parse"
    /\ idx = 1
    /\ counts = ZeroCounts
    /\ stack = <<>>
    /\ out = <<>>
    /\ err = <<>>
    /\ calls = <<>>
    /\ text = <<>>
    /\ vlen = -1
    /\ stdout = <<>>
    /\ lineno = 0
    /\ map = <<>>
    /\ got = <<>>

\* One iteration of main's argument loop.
ParseArg ==
    /\ pc = "parse"
    /\ argi <= Len(args)
    /\ LET m == MatchArg(opts, paths, args[argi])
       IN  /\ opts' = m.opts
           /\ paths' = m.paths
           /\ pc' = IF m.exit THEN "exit1" ELSE "parse"
           /\ err' = IF m.exit THEN Append(err, [kind |-> "usage", dir |-> 0, root |-> 0]) ELSE err
    /\ argi' = argi + 1
    /\ UNCHANGED <<args, env, idx, counts, stack, out, calls, text, vlen,
                   stdout, lineno, map, got>>

\* The end of the argument loop: the default path.
EndParse ==
    /\ pc = "parse"
    /\ argi > Len(args)
    /\ paths' = IF paths = <<>> THEN <<".">> ELSE paths
    /\ pc' = "root"
    /\ UNCHANGED <<args, env, argi, opts, idx, counts, stack, out, err, calls, text, vlen,
                   stdout, lineno, map, got>>

\* The start of one iteration of main's loop over the paths: the header, a
\* fresh Counts and the call of print_tree or list_dir.
BeginRoot ==
    /\ pc = "root"
    /\ idx <= Len(paths)
    /\ LET d == PathNode(paths[idx])
           m == Mode(opts)
       IN  /\ out' = IF Len(paths) > 1
                     THEN Append(out, [kind |-> "header", root |-> idx, path |-> paths[idx]])
                     ELSE out
           /\ counts' = ZeroCounts
           /\ stack' = WithGit(Called(stack, m.fn, d, <<>>, m.depth), Len(stack),
                               GitMapOf(opts, idx))
           /\ err' = Reported(err, d, idx)
           /\ calls' = Append(calls, <<idx, d>>)
    /\ pc' = "run"
    /\ UNCHANGED <<args, env, argi, opts, paths, idx, text, vlen,
                   stdout, lineno, map, got>>

\* One iteration of the read loop of list_dir or print_tree: the iterator yields
\* an entry, which is skipped, or counted and pushed.
ReadEntry ==
    /\ pc = "run"
    /\ stack # <<>>
    /\ Top.phase = "read"
    /\ \E n \in Top.remaining :
        LET kept == PassesHidden(n, opts) /\ FS[n].meta_ok /\ PassesTypeFilters(n, opts)
        IN  /\ counts' = IF kept THEN Bump(counts, n) ELSE counts
            /\ stack' = Append(Below,
                          [Top EXCEPT !.remaining = @ \ {n},
                                      !.raw = IF kept THEN Append(@, n) ELSE @,
                                      !.entries = IF kept THEN Append(@, n) ELSE @])
    /\ UNCHANGED <<args, env, argi, opts, paths, pc, idx, out, err, calls, text, vlen,
                   stdout, lineno, map, got>>

\* print_tree after its read loop: entries.sort_by.
SortTree ==
    /\ pc = "run"
    /\ stack # <<>>
    /\ Top.fn = "tree"
    /\ Top.phase = "read"
    /\ Top.remaining = {}
    /\ stack' = Append(Below, [Top EXCEPT !.entries = SortBy(@, "tree", opts), !.phase = "print"])
    /\ UNCHANGED <<args, env, argi, opts, paths, pc, idx, counts, out, err, calls, text, vlen,
                   stdout, lineno, map, got>>

\* list_dir after its read loop: entries.sort_by, and for the short format the
\* display strings and the terminal width.
SortFlat ==
    /\ pc = "run"
    /\ stack # <<>>
    /\ Top.fn = "flat"
    /\ Top.phase = "read"
    /\ Top.remaining = {}
    /\ \E e \in IF opts.long THEN {env}
                ELSE IF env = "unread" THEN {"unset", "30", "16"} ELSE {env} :
        /\ env' = e
        /\ LET sorted == SortBy(Top.entries, "flat", opts)
           IN  stack' = Append(Below,
                  [Top EXCEPT !.entries = sorted,
                              !.phase = "print",
                              !.disp = IF opts.long THEN <<>>
                                       ELSE [k \in 1..Len(sorted) |->
                                                build_short_display(sorted[k], "None")],
                              !.width = IF opts.long THEN 0 ELSE TermWidth(e)])
    /\ UNCHANGED <<args, argi, opts, paths, pc, idx, counts, out, err, calls, text, vlen,
                   stdout, lineno, map, got>>

\* The branch marker of a tree line; "+-- " and "|-- " stand for the box-drawing
\* strings of the source, four characters each.
BranchMarker(is_last) == IF is_last THEN "+-- " ELSE "|-- "

\* A continuation segment that ignores whether the directory was the last one.
ContinuationAlwaysBar(is_last) == "|   "

\* The segment new_prefix adds to prefix; "|   " stands for the vertical bar and
\* three spaces of the source.
Continuation(is_last) == IF is_last THEN "    " ELSE "|   "

\* One iteration of print_tree's print loop: the line, and the recursive call
\* for a directory.
TreeEntry ==
    /\ pc = "run"
    /\ stack # <<>>
    /\ Top.fn = "tree"
    /\ Top.phase = "print"
    /\ Top.i < Len(Top.entries)
    /\ LET n == Top.entries[Top.i + 1]
           is_last == Top.i = Len(Top.entries) - 1
           new_prefix == Append(Top.prefix, Continuation(is_last))
           here == Append(Below, [Top EXCEPT !.i = @ + 1, !.raw = <<>>])
           d == Descend(Top.depth)
       IN  /\ out' = Append(out, [kind |-> "tree", root |-> idx, prefix |-> Top.prefix,
                                  last |-> is_last, marker |-> BranchMarker(is_last),
                                  node |-> n, git |-> Top.git])
           /\ IF IsDir(n) /\ d.go
              THEN /\ stack' = WithGit(Called(here, "tree", n, new_prefix, d.depth),
                                       Len(here), Top.git)
                   /\ err' = Reported(err, n, idx)
                   /\ calls' = Append(calls, <<idx, n>>)
              ELSE /\ stack' = here
                   /\ UNCHANGED <<err, calls>>
    /\ UNCHANGED <<args, env, argi, opts, paths, pc, idx, counts, text, vlen,
                   stdout, lineno, map, got>>

\* The return of print_tree after its print loop.
TreeReturn ==
    /\ pc = "run"
    /\ stack # <<>>
    /\ Top.fn = "tree"
    /\ Top.phase = "print"
    /\ Top.i = Len(Top.entries)
    /\ stack' = Below
    /\ UNCHANGED <<args, env, argi, opts, paths, pc, idx, counts, out, err, calls, text, vlen,
                   stdout, lineno, map, got>>

\* One iteration of list_dir's loop over the rows (short format).
EmitRow ==
    /\ pc = "run"
    /\ stack # <<>>
    /\ Top.fn = "flat"
    /\ Top.phase = "print"
    /\ ~opts.long
    /\ LET cols == Cols(Top.disp, Top.width, opts.one_per_line)
           rows == Rows(Len(Top.disp), cols)
       IN  /\ Top.i < rows
           /\ out' = Append(out, [kind |-> "row", root |-> idx, git |-> Top.git,
                                  cells |-> RowCells(Top.disp, Top.i, cols, rows)])
    /\ stack' = Append(Below, [Top EXCEPT !.i = @ + 1, !.raw = <<>>])
    /\ UNCHANGED <<args, env, argi, opts, paths, pc, idx, counts, err, calls, text, vlen,
                   stdout, lineno, map, got>>

\* One call of print_long_entry in list_dir's loop over the entries (long format).
PrintLong ==
    /\ pc = "run"
    /\ stack # <<>>
    /\ Top.fn = "flat"
    /\ Top.phase = "print"
    /\ opts.long
    /\ Top.i < Len(Top.entries)
    /\ out' = Append(out, [kind |-> "long", root |-> idx, node |-> Top.entries[Top.i + 1],
                            git |-> Top.git])
    /\ stack' = Append(Below, [Top EXCEPT !.i = @ + 1, !.raw = <<>>])
    /\ UNCHANGED <<args, env, argi, opts, paths, pc, idx, counts, err, calls, text, vlen,
                   stdout, lineno, map, got>>

\* The return of list_dir after its print loop.
ListDirReturn ==
    /\ pc = "run"
    /\ stack # <<>>
    /\ Top.fn = "flat"
    /\ Top.phase = "print"
    /\ IF opts.long THEN Top.i = Len(Top.entries)
       ELSE Top.i = Rows(Len(Top.disp), Cols(Top.disp, Top.width, opts.one_per_line))
    /\ stack' = Below
    /\ UNCHANGED <<args, env, argi, opts, paths, pc, idx, counts, out, err, calls, text, vlen,
                   stdout, lineno, map, got>>

\* The rest of main's loop body once print_tree or list_dir has returned: the
\* report, the blank line between roots, the next root.
Report ==
    /\ pc = "run"
    /\ stack = <<>>
    /\ out' = (IF opts.report /\ ReportParts(counts) # <<>>
               THEN Append(out, [kind |-> "report", root |-> idx, parts |-> ReportParts(counts)])
               ELSE out)
              \o (IF Len(paths) > 1 /\ idx < Len(paths)
                  THEN << [kind |-> "blank", root |-> idx] >> ELSE <<>>)
    /\ idx' = idx + 1
    /\ pc' = IF idx < Len(paths) THEN "root" ELSE "done"
    /\ UNCHANGED <<args, env, argi, opts, paths, counts, stack, err, calls, text, vlen,
                   stdout, lineno, map, got>>

\* The exit code of the process: 1 from std::process::exit(1) in the argument
\* loop, 0 when main returns, -1 while it runs.
ExitCode == CASE pc = "exit1" -> 1 [] pc = "done" -> 0 [] OTHER -> -1

Next ==
    \/ ParseArg
    \/ EndParse
    \/ BeginRoot
    \/ ReadEntry
    \/ SortTree
    \/ SortFlat
    \/ TreeEntry
    \/ TreeReturn
    \/ EmitRow
    \/ PrintLong
    \/ ListDirReturn
    \/ Report

Spec == Init /\ [][Next]_vars


(***************************************************************************)
(* The column layout on its own: list_dir from the point where its         *)
(* display_strings are built, for any sequence of fragments.               *)
(***************************************************************************)
\* Fragments of visible width 2, 5 and 9, with and without color codes.
Fragments ==
    { Dark.dir \o <<97, 98>> \o Dark.reset,
      <<97, 98, 99, 100, 101>>,
      <<SPACE, SPACE>> \o Dark.file \o <<97, 98, 99, 100, 101, 102, 103>> \o Dark.reset }

LayoutInit ==
    /\ args = <<>>
    /\ env \in {"unset", "0", "10", "16", "30"}
    /\ argi = 1
    /\ opts \in {DefaultOptions, [DefaultOptions EXCEPT !.one_per_line = TRUE]}
    /\ paths = <<".">>
    /\ pc = "run"
    /\ idx = 1
    /\ counts = ZeroCounts
    /\ \E disp \in UNION { [1..k -> Fragments] : k \in 0..MaxFrags } :
         stack = << [Frame("flat", 0, <<>>, 0) EXCEPT
                        !.phase = "print", !.disp = disp, !.width = TermWidth(env)] >>
    /\ out = <<>>
    /\ err = <<>>
    /\ calls = <<>>
    /\ text = <<>>
    /\ vlen = -1
    /\ stdout = <<>>
    /\ lineno = 0
    /\ map = <<>>
    /\ got = <<>>

LayoutNext ==
    \/ EmitRow
    \/ ListDirReturn
    \/ Report

SpecLayout == LayoutInit /\ [][LayoutNext]_vars

(***************************************************************************)
(* visible_len on its own: strings of printable characters and color codes.*)
(***************************************************************************)
\* A printable character or a color code, as the UTF-8 bytes of the string.
Printable(bytes) == [printable |-> TRUE, bytes |-> bytes]
Code(digits) == [printable |-> FALSE, bytes |-> Color(digits)]

Items ==
    { Printable(<<97>>),                    \* a
      Printable(<<195, 169>>),              \* e with acute accent, U+00E9
      Printable(<<240, 159, 147, 129>>),    \* the directory icon, U+1F4C1
      Code(<<48>>),                         \* ESC [ 0 m
      Code(<<51, 52>>),                     \* ESC [ 3 4 m
      Code(<<49, 59, 51, 49>>) }            \* ESC [ 1 ; 3 1 m

\* The bytes of a string given as its characters and codes.
RECURSIVE BytesFrom(_, _)
BytesFrom(items, k) ==
    IF k > Len(items) THEN <<>> ELSE items[k].bytes \o BytesFrom(items, k + 1)

Bytes(items) == BytesFrom(items, 1)

VisInit ==
    /\ args = <<>>
    /\ env = "unread"
    /\ argi = 1
    /\ opts = DefaultOptions
    /\ paths = <<>>
    /\ pc = "visible_len"
    /\ idx = 1
    /\ counts = ZeroCounts
    /\ stack = <<>>
    /\ out = <<>>
    /\ err = <<>>
    /\ calls = <<>>
    /\ text \in UNION { [1..k -> Items] : k \in 0..MaxItems }
    /\ vlen = -1
    /\ stdout = <<>>
    /\ lineno = 0
    /\ map = <<>>
    /\ got = <<>>

\* A call of visible_len on the string.
Measure ==
    /\ pc = "visible_len"
    /\ vlen = -1
    /\ vlen' = visible_len(Bytes(text))
    /\ UNCHANGED <<args, env, argi, opts, paths, pc, idx, counts, stack, out, err, calls, text,
                   stdout, lineno, map, got>>

SpecVis == VisInit /\ [][Measure]_vars


(***************************************************************************)
(* git_statuses on its own: the output of git status --porcelain, line by  *)
(* line, and lookups in the mapping it builds.  Strings are byte sequences. *)
(***************************************************************************)
MaxLines == 2

\* line.len() < 3
GIT_MIN_LEN == 3

\* " -> "
ARROW == <<SPACE, 45, 62, SPACE>>

\* The state taken from the second character of the code whenever there is one.
parse_git_state_y_first(x, y) ==
    LET c == IF y # SPACE THEN y ELSE x
    IN  CASE c \in {65, 67} -> "Added"
          [] c = 77 -> "Modified"
          [] c = 68 -> "Deleted"
          [] c = 82 -> "Renamed"
          [] c = 84 -> "TypeChanged"
          [] c = 63 -> "Untracked"
          [] c = 33 -> "Ignored"
          [] OTHER -> "None"

parse_git_state(x, y) ==
    LET c == IF x # SPACE THEN x ELSE y
    IN  CASE c \in {65, 67} -> "Added"
          [] c = 77 -> "Modified"
          [] c = 68 -> "Deleted"
          [] c = 82 -> "Renamed"
          [] c = 84 -> "TypeChanged"
          [] c = 63 -> "Untracked"
          [] c = 33 -> "Ignored"
          [] OTHER -> "None"

\* remainder.find(" -> "): the 1-based position of the first match, 0 for None.
RECURSIVE FindFrom(_, _, _)
FindFrom(str, pat, i) ==
    IF i + Len(pat) - 1 > Len(str) THEN 0
    ELSE IF SubSeq(str, i, i + Len(pat) - 1) = pat THEN i
    ELSE FindFrom(str, pat, i + 1)

\* rel_path: the remainder, or what follows " -> " in it.
RelPath(remainder) ==
    IF FindFrom(remainder, ARROW, 1) # 0
    THEN SubSeq(remainder, FindFrom(remainder, ARROW, 1) + Len(ARROW), Len(remainder))
    ELSE remainder

\* map.insert(rel_path, state)
MapInsert(m, k, v) == [q \in (DOMAIN m) \cup {k} |-> IF q = k THEN v ELSE m[q]]

\* git_map.get(&rel_path).cloned().unwrap_or(GitState::None)
MapGet(m, k) == IF k \in DOMAIN m THEN m[k] ELSE "None"

\* The lines the model's git writes.
GitLines ==
    {
      <<63, 63, 32, 110, 101, 119, 102, 105, 108, 101, 46, 116, 120, 116>>,   \* "?? newfile.txt"
      <<82, 32, 32, 111, 108, 100, 46, 116, 120, 116, 32, 45, 62, 32, 110, 101, 119, 46, 116, 120, 116>>,   \* "R  old.txt -> new.txt"
      <<32, 77, 32, 97>>,   \* " M a"
      <<65, 32, 32, 97>>,   \* "A  a"
      <<67, 32, 32, 97, 32, 45, 62, 32, 98>>,   \* "C  a -> b"
      <<68, 32, 32, 98>>,   \* "D  b"
      <<32, 84, 32, 98>>,   \* " T b"
      <<33, 33, 32, 97>>,   \* "!! a"
      <<85, 85, 32, 97>>,   \* "UU a"
      <<77, 68, 32, 98>>,   \* "MD b"
      <<77>>,   \* "M"
      <<63, 63>>,   \* "??"
      <<>> }   \* ""

\* The paths looked up: newfile.txt, new.txt, old.txt, a.
LookupPaths == { <<110, 101, 119, 102, 105, 108, 101, 46, 116, 120, 116>>,
                 <<110, 101, 119, 46, 116, 120, 116>>,
                 <<111, 108, 100, 46, 116, 120, 116>>,
                 <<97>> }

GitInit ==
    /\ args = <<>>
    /\ env = "unread"
    /\ argi = 1
    /\ opts = [DefaultOptions EXCEPT !.git_status = TRUE]
    /\ paths = <<>>
    /\ pc = "git_statuses"
    /\ idx = 1
    /\ counts = ZeroCounts
    /\ stack = <<>>
    /\ out = <<>>
    /\ err = <<>>
    /\ calls = <<>>
    /\ text = <<>>
    /\ vlen = -1
    /\ stdout \in UNION { [1..k -> GitLines] : k \in 0..MaxLines }
    /\ lineno = 0
    /\ map = <<>>
    /\ got = <<>>

\* One iteration of git_statuses' loop over stdout.lines().
ReadLine ==
    /\ pc = "git_statuses"
    /\ lineno < Len(stdout)
    /\ LET line == stdout[lineno + 1]
       IN  map' = IF Len(line) < GIT_MIN_LEN THEN map
                  ELSE MapInsert(map, RelPath(SubSeq(line, 4, Len(line))),
                                 parse_git_state(line[1], line[2]))
    /\ lineno' = lineno + 1
    /\ UNCHANGED <<args, env, argi, opts, paths, pc, idx, counts, stack, out, err, calls, text,
                   vlen, stdout, got>>

\* git_statuses returns the map.
ReturnMap ==
    /\ pc = "git_statuses"
    /\ lineno = Len(stdout)
    /\ pc' = "lookup"
    /\ UNCHANGED <<args, env, argi, opts, paths, idx, counts, stack, out, err, calls, text,
                   vlen, stdout, lineno, map, got>>

\* A lookup of an entry's path, as list_dir and print_tree make it.
Lookup ==
    /\ pc = "lookup"
    /\ \E k \in LookupPaths : got' = <<k, MapGet(map, k)>>
    /\ UNCHANGED <<args, env, argi, opts, paths, pc, idx, counts, stack, out, err, calls, text,
                   vlen, stdout, lineno, map>>

GitNext ==
    \/ ReadLine
    \/ ReturnMap
    \/ Lookup

SpecGit == GitInit /\ [][GitNext]_vars

(***************************************************************************)
(* print_tree on its own: one call on a root with any depth, the depth     *)
(* usize::MAX included, run to its return.                                 *)
(***************************************************************************)
WalkDepths == {1, 2, 3, USIZE_MAX}

WalkInit ==
    /\ args = <<>>
    /\ env = "unread"
    /\ argi = 1
    /\ \E depth \in WalkDepths : \E root \in {".", "z"} :
         /\ opts = [DefaultOptions EXCEPT !.tree_depth = SomeDepth(depth)]
         /\ paths = <<root>>
         /\ stack = Called(<<>>, "tree", PathNode(root), <<>>, depth)
         /\ calls = << <<1, PathNode(root)>> >>
    /\ pc = "run"
    /\ idx = 1
    /\ counts = ZeroCounts
    /\ out = <<>>
    /\ err = <<>>
    /\ text = <<>>
    /\ vlen = -1
    /\ stdout = <<>>
    /\ lineno = 0
    /\ map = <<>>
    /\ got = <<>>

WalkNext ==
    \/ ReadEntry
    \/ SortTree
    \/ TreeEntry
    \/ TreeReturn

\* The walk is sequential code: whenever it has a next step it takes it.
SpecWalk == WalkInit /\ [][WalkNext]_vars /\ WF_vars(WalkNext)

(***************************************************************************)
(* Vocabulary of the properties: what the command line asked for and what  *)
(* the directory tree holds, read from args and FS directly.               *)
(***************************************************************************)
\* The argument loop has ended without an exit.
Parsed == pc \in {"root", "run", "done"}

Given(h) == \E i \in 1..Len(args) : args[i].head = h /\ ~args[i].eq /\ args[i].val = ""

TreeArgIdx == {i \in 1..Len(args) : args[i].head = "--tree"}

\* The last --tree argument decides.
LastTreeArg == args[CHOOSE i \in TreeArgIdx : \A j \in TreeArgIdx : j <= i]

\* N of --tree=N; plain --tree and --tree= mean 3.
RequestedDepth ==
    IF ~LastTreeArg.eq \/ LastTreeArg.val = "" THEN 3
    ELSE CASE LastTreeArg.val = "-1" -> -1
           [] LastTreeArg.val = "0" -> 0
           [] LastTreeArg.val = "1" -> 1
           [] LastTreeArg.val = "2" -> 2

\* An entry passes the hidden-file filter and its metadata can be read.
Visible(n) == (Given("-a") \/ FS[n].name[1] # 46) /\ FS[n].meta_ok

\* An entry is displayed when its directory is listed.
Shown(n) ==
    /\ Visible(n)
    /\ Given("-d") => FS[n].kind = "dir"
    /\ Given("-f") => FS[n].kind # "dir"

RECURSIVE DepthBelow(_, _)
\* Nesting level of n below the directory r (0 for r itself, -1 when not below r).
DepthBelow(n, r) ==
    IF n = r THEN 0
    ELSE IF n = 0 \/ FS[n].parent = 0 THEN -1
    ELSE IF DepthBelow(FS[n].parent, r) = -1 THEN -1
    ELSE DepthBelow(FS[n].parent, r) + 1

\* The proper ancestors of n strictly below r.
Between(n, r) ==
    {a \in Nodes : a # n /\ a # r /\ DepthBelow(a, r) > 0 /\ DepthBelow(n, a) > 0}

\* The entries a tree listing of root r bounded by depth limit shows.
ExpectedTree(r, limit) ==
    IF r = 0 \/ ~FS[r].readable THEN {}
    ELSE {n \in Nodes : /\ DepthBelow(n, r) >= 1
                        /\ DepthBelow(n, r) <= limit
                        /\ Shown(n)
                        /\ \A a \in Between(n, r) : Shown(a) /\ FS[a].readable}

RootNode(ri) == CASE paths[ri] = "." -> 1 [] paths[ri] = "z" -> 4 [] OTHER -> 0

\* The root with index ri has been processed up to its report.
Finished(ri) == ri < idx \/ (ri = idx /\ pc = "run" /\ stack = <<>>)

TreeLines(ri) == {k \in 1..Len(out) : out[k].kind = "tree" /\ out[k].root = ri}
FlatLines(ri) == {k \in 1..Len(out) : out[k].kind \in {"row", "long"} /\ out[k].root = ri}

Level(k) == Len(out[k].prefix) + 1

\* fs::read_dir was called on directory d while root ri was processed.
WasRead(ri, d) == \E c \in 1..Len(calls) : calls[c] = <<ri, d>>

(***************************************************************************)
(* C1: with --tree=N, N <= 0, the listing is a tree listing with no depth  *)
(* bound: no flat row or long line is printed, and every directory         *)
(* displayed at any nesting level is descended into.                       *)
(***************************************************************************)
C1_UnboundedTree ==
    (Parsed /\ TreeArgIdx # {} /\ RequestedDepth <= 0) =>
        \A ri \in 1..Len(paths) :
            /\ FlatLines(ri) = {}
            /\ Finished(ri) =>
                 {out[k].node : k \in TreeLines(ri)} = ExpectedTree(RootNode(ri), Len(FS))

(***************************************************************************)
(* C2: with --tree=N, N >= 1 (plain --tree: N = 3), the tree walk prints   *)
(* the entries at nesting levels 1..N only: a displayed directory below    *)
(* level N is descended into, a directory at level N is listed and not     *)
(* descended into; a finished root shows exactly the entries within N      *)
(* levels, each once, and only the root's children when N = 1.             *)
(***************************************************************************)
C2_BoundedTree ==
    (Parsed /\ TreeArgIdx # {} /\ RequestedDepth >= 1) =>
        \A ri \in 1..Len(paths) :
            /\ FlatLines(ri) = {}
            /\ \A k \in TreeLines(ri) :
                 /\ Level(k) >= 1 /\ Level(k) <= RequestedDepth
                 /\ Level(k) = DepthBelow(out[k].node, RootNode(ri))
                 /\ FS[out[k].node].kind = "dir" =>
                      (WasRead(ri, out[k].node) <=> Level(k) < RequestedDepth)
                 /\ \A j \in TreeLines(ri) : out[j].node = out[k].node => j = k
            /\ \A c \in 1..Len(calls) :
                 calls[c][1] = ri =>
                    \/ calls[c][2] = RootNode(ri)
                    \/ /\ DepthBelow(calls[c][2], RootNode(ri)) >= 1
                       /\ DepthBelow(calls[c][2], RootNode(ri)) < RequestedDepth
            /\ Finished(ri) =>
                 {out[k].node : k \in TreeLines(ri)} = ExpectedTree(RootNode(ri), RequestedDepth)
            /\ (Finished(ri) /\ RequestedDepth = 1) =>
                 /\ \A k \in TreeLines(ri) : FS[out[k].node].parent = RootNode(ri)
                 /\ \A c \in 1..Len(calls) : calls[c][1] = ri => calls[c][2] = RootNode(ri)

\* plain --tree on ".": n, at level 3, is listed and not read; m, at level 2, is read.
C2_Witness ==
    /\ pc = "done"
    /\ TreeArgIdx # {} /\ RequestedDepth = 3
    /\ paths = <<".">>
    /\ \E k \in TreeLines(1) : out[k].node = 9 /\ Level(k) = 3
    /\ ~WasRead(1, 9)
    /\ WasRead(1, 8)


\* The directories read while root ri was processed.
ReadDirs(ri) == {d \in Nodes : WasRead(ri, d) /\ FS[d].kind = "dir" /\ FS[d].readable}

\* The kind of entry each Counts field stands for.
FieldOf(n) ==
    CASE FS[n].kind = "dir" -> "dirs"
      [] FS[n].kind = "file" -> "files"
      [] FS[n].kind = "fifo" -> "pipes"
      [] FS[n].kind = "socket" -> "sockets"
      [] FS[n].kind = "block" -> "block_devices"
      [] FS[n].kind = "char" -> "char_devices"
      [] FS[n].kind = "symlink" /\ ~SymlinkLive(n) -> "broken_symlinks"
      [] OTHER -> "symlinks"

RECURSIVE SumOver(_, _)
SumOver(c, fields) ==
    IF fields = {} THEN 0
    ELSE LET f == CHOOSE g \in fields : TRUE IN c[f] + SumOver(c, fields \ {f})

Total(c) == SumOver(c, CountFields)

(***************************************************************************)
(* C3 as claimed: when a root has been listed, flat or tree, Counts holds  *)
(* every entry of the directories read that passes the hidden-file filter  *)
(* and has readable metadata, whatever -d and -f say.                      *)
(***************************************************************************)
C3_CountsIgnoreTypeFilters ==
    (pc = "run" /\ stack = <<>>) =>
        \A f \in CountFields :
            counts[f] = Cardinality({n \in Nodes : /\ FS[n].parent \in ReadDirs(idx)
                                                   /\ Visible(n)
                                                   /\ FieldOf(n) = f})

(***************************************************************************)
(* C3 as amended: when a root has been listed, flat or tree, Counts holds  *)
(* exactly the entries of the directories read that pass the hidden-file   *)
(* filter, have readable metadata and pass the -d and -f filters; with -d  *)
(* the regular files are not counted.                                      *)
(***************************************************************************)
C3_CountsFollowTypeFilters ==
    (pc = "run" /\ stack = <<>>) =>
        /\ \A f \in CountFields :
             counts[f] = Cardinality({n \in Nodes : /\ FS[n].parent \in ReadDirs(idx)
                                                    /\ Shown(n)
                                                    /\ FieldOf(n) = f})
        /\ Given("-d") => \A f \in CountFields \ {"dirs"} : counts[f] = 0
        /\ Given("-f") => counts["dirs"] = 0

\* rdir -d --report on ".": a.txt and B.txt pass the hidden-file filter, and the
\* report says one directory and nothing else.
C3_Witness ==
    /\ pc = "done"
    /\ Given("-d") /\ Given("--report") /\ TreeArgIdx = {}
    /\ paths = <<".">>
    /\ Visible(2) /\ Visible(3)
    /\ \E k \in 1..Len(out) : out[k].kind = "report" /\ out[k].parts = << <<"dirs", 1>> >>

\* The entries displayed so far for root ri.
RECURSIVE CellsIn(_, _)
CellsIn(lines, k) ==
    IF k > Len(lines) THEN 0
    ELSE (IF lines[k].kind = "row" THEN Len(lines[k].cells) ELSE 0) + CellsIn(lines, k + 1)

DisplayedCount(ri) ==
    Cardinality({k \in 1..Len(out) : out[k].kind \in {"tree", "long"} /\ out[k].root = ri})
    + CellsIn(SelectSeq(out, LAMBDA l : l.root = ri), 1)

(***************************************************************************)
(* C4: while one root is processed no Counts field decreases and a step    *)
(* changes at most one field, by exactly one; when the root's listing is   *)
(* complete the Counts fields sum to the number of entries displayed for   *)
(* that root, and each field to the number of displayed entries of its     *)
(* kind in tree and long listings.                                         *)
(***************************************************************************)
C4_StepOk ==
    (pc = "run" /\ pc' = "run") =>
        \/ counts' = counts
        \/ \E f \in CountFields :
             /\ counts'[f] = counts[f] + 1
             /\ \A g \in CountFields \ {f} : counts'[g] = counts[g]

C4_SumOk ==
    (pc = "run" /\ stack = <<>>) =>
        /\ Total(counts) = DisplayedCount(idx)
        /\ \A f \in CountFields :
             (\A k \in 1..Len(out) : out[k].root = idx => out[k].kind # "row") =>
                counts[f] = Cardinality({k \in 1..Len(out) :
                                /\ out[k].kind \in {"tree", "long"}
                                /\ out[k].root = idx
                                /\ FieldOf(out[k].node) = f})

C4_CountedOnce == []C4_SumOk /\ [][C4_StepOk]_vars

\* A recursive traversal ends with directories, files, symlinks and a pipe counted.
C4_Witness ==
    /\ pc = "run" /\ stack = <<>>
    /\ TreeLines(idx) # {}
    /\ counts["dirs"] >= 2 /\ counts["files"] >= 2 /\ counts["symlinks"] = 2
    /\ counts["pipes"] = 1
    /\ Total(counts) = DisplayedCount(idx)

(***************************************************************************)
(* C5: whenever print_tree has sorted the entries of a directory, they are *)
(* in the order list_dir gives the same entries: grouping only with --sd   *)
(* or --sf, then time with -t, then the case-insensitive name.             *)
(***************************************************************************)
C5_TreeOrderIsFlatOrder ==
    \A d \in 1..Len(stack) :
        (stack[d].fn = "tree" /\ stack[d].phase = "print" /\ stack[d].i = 0) =>
            stack[d].entries = SortBy(stack[d].raw, "flat", opts)

(***************************************************************************)
(* What a flat listing has displayed.                                      *)
(***************************************************************************)
\* list_dir is about to return: every entry of the frame has been printed.
FlatComplete ==
    /\ pc = "run"
    /\ stack # <<>>
    /\ Top.fn = "flat"
    /\ Top.phase = "print"
    /\ IF opts.long THEN DisplayedCount(idx) = Len(Top.entries)
       ELSE DisplayedCount(idx) = Len(Top.disp)

RowsOf(ri) == SelectSeq(out, LAMBDA l : l.root = ri /\ l.kind = "row")

RECURSIVE WidestRow(_, _)
WidestRow(rs, k) == IF k > Len(rs) THEN 0 ELSE Max(Len(rs[k].cells), WidestRow(rs, k + 1))

\* The fragment indices of the rows read column by column: top to bottom, then
\* left to right.
RECURSIVE ReadColumns(_, _, _)
ReadColumns(rs, c, r) ==
    IF c > WidestRow(rs, 1) THEN <<>>
    ELSE IF r > Len(rs) THEN ReadColumns(rs, c + 1, 1)
    ELSE (IF Len(rs[r].cells) >= c THEN <<rs[r].cells[c].i>> ELSE <<>>)
         \o ReadColumns(rs, c, r + 1)

\* The names a complete flat listing displays, in reading order.
FlatShownNames ==
    IF opts.long
    THEN LET ls == SelectSeq(out, LAMBDA l : l.root = idx /\ l.kind = "long")
         IN  [k \in 1..Len(ls) |-> FS[ls[k].node].name]
    ELSE LET is == ReadColumns(RowsOf(idx), 1, 1)
         IN  [k \in 1..Len(is) |-> FS[Top.entries[is[k] + 1]].name]

DefaultSort == ~Given("--sd") /\ ~Given("--sf") /\ ~Given("-t")

(***************************************************************************)
(* C6 as claimed: a flat listing of the directory holding a.txt, B.txt and *)
(* the directory z displays B.txt, a.txt, z with the default sort options, *)
(* and z first with --sd.                                                  *)
(***************************************************************************)
C6_OrderAsClaimed ==
    (FlatComplete /\ Top.dir = 1 /\ ~Given("-f")) =>
        /\ (DefaultSort /\ ~Given("-d")) =>
              FlatShownNames = << <<66, 46, 116, 120, 116>>, <<97, 46, 116, 120, 116>>, <<122>> >>
        /\ Given("--sd") => FlatShownNames[1] = <<122>>

(***************************************************************************)
(* C6 as amended: a flat listing of the directory holding a.txt, B.txt and *)
(* the directory z displays a.txt, B.txt, z with the default sort options  *)
(* (the names compare case-insensitively), and z first with --sd.          *)
(***************************************************************************)
C6_OrderCaseInsensitive ==
    (FlatComplete /\ Top.dir = 1 /\ ~Given("-f")) =>
        /\ (DefaultSort /\ ~Given("-d")) =>
              FlatShownNames = << <<97, 46, 116, 120, 116>>, <<66, 46, 116, 120, 116>>, <<122>> >>
        /\ Given("--sd") => FlatShownNames[1] = <<122>>

\* The default listing of "." printed in two columns: a.txt, B.txt, z.
C6_Witness ==
    /\ FlatComplete /\ Top.dir = 1
    /\ args = <<>>
    /\ Len(RowsOf(idx)) = 2
    /\ FlatShownNames = << <<97, 46, 116, 120, 116>>, <<66, 46, 116, 120, 116>>, <<122>> >>

(***************************************************************************)
(* The sort keys, read from the command line and the directory tree.       *)
(***************************************************************************)
GroupKey(n) ==
    IF Given("--sd") THEN (IF FS[n].kind = "dir" THEN 0 ELSE 1)
    ELSE IF Given("--sf") THEN (IF FS[n].kind = "dir" THEN 1 ELSE 0)
    ELSE 0

TimeKey(n) == IF Given("-t") THEN 0 - FS[n].mtime ELSE 0

LowerName(n) == ToLowerBytes(FS[n].name)

\* a comes strictly before b: group, then time (newest first), then name.
Precedes(a, b) ==
    \/ GroupKey(a) < GroupKey(b)
    \/ /\ GroupKey(a) = GroupKey(b)
       /\ \/ TimeKey(a) < TimeKey(b)
          \/ TimeKey(a) = TimeKey(b) /\ StrCmp(LowerName(a), LowerName(b)) = "Less"

PositionIn(seq, x) == CHOOSE k \in 1..Len(seq) : seq[k] = x

\* list_dir has just sorted its entries.
FlatSorted == pc = "run" /\ stack # <<>> /\ Top.fn = "flat" /\ Top.phase = "print" /\ Top.i = 0

(***************************************************************************)
(* C7 as claimed: the comparator of list_dir leaves no ties: any two       *)
(* distinct entries of one directory compare Less or Greater, so the       *)
(* sorted order does not depend on the order the directory read gave.      *)
(***************************************************************************)
C7_NoTies ==
    FlatSorted =>
        \A i \in 1..Len(Top.entries) : \A j \in 1..Len(Top.entries) :
            i < j => list_dir_cmp(Top.entries[i], Top.entries[j], opts) = "Less"

(***************************************************************************)
(* C7 as amended: the comparator of list_dir is a total preorder: it       *)
(* orders by group (with --sd or --sf), then time (with -t), then          *)
(* lower-cased name; two distinct entries compare Equal exactly when group *)
(* and time keys are equal and the names differ only in letter case, and   *)
(* such entries keep the order the directory read gave them; entries       *)
(* are displayed in that order.                                            *)
(***************************************************************************)
C7_TotalPreorder ==
    FlatSorted =>
        LET es == Top.entries
        IN  /\ \A i \in 1..Len(es) : \A j \in 1..Len(es) :
                 /\ list_dir_cmp(es[i], es[j], opts) =
                       (IF Precedes(es[i], es[j]) THEN "Less"
                        ELSE IF Precedes(es[j], es[i]) THEN "Greater" ELSE "Equal")
                 /\ (i # j /\ list_dir_cmp(es[i], es[j], opts) = "Equal") =>
                       /\ LowerName(es[i]) = LowerName(es[j])
                       /\ FS[es[i]].name # FS[es[j]].name
                 /\ i < j =>
                       /\ ~Precedes(es[j], es[i])
                       /\ ~Precedes(es[i], es[j]) =>
                             PositionIn(Top.raw, es[i]) < PositionIn(Top.raw, es[j])
            /\ {es[i] : i \in 1..Len(es)} = {Top.raw[i] : i \in 1..Len(Top.raw)}
            /\ Len(es) = Len(Top.raw)

\* The flat listing of z when the directory read gave K before k: they compare
\* Equal and K stays first.
C7_Witness ==
    /\ FlatSorted /\ Top.dir = 4
    /\ 6 \in {Top.raw[i] : i \in 1..Len(Top.raw)}
    /\ 7 \in {Top.raw[i] : i \in 1..Len(Top.raw)}
    /\ PositionIn(Top.raw, 7) < PositionIn(Top.raw, 6)
    /\ PositionIn(Top.entries, 7) < PositionIn(Top.entries, 6)
    /\ list_dir_cmp(6, 7, opts) = "Equal"

(***************************************************************************)
(* The layout the properties expect: C = max(1, T / W), W = max visible    *)
(* width + 2 (C = 1 with -1), rows = ceil(N / C).                          *)
(***************************************************************************)
LayoutRunning == pc = "run" /\ stack # <<>> /\ Top.fn = "flat" /\ Top.phase = "print" /\ ~opts.long

ExpectedCols ==
    IF opts.one_per_line THEN 1 ELSE Max(1, Top.width \div (MaxLen(Top.disp) + 2))

ExpectedRows == IF Len(Top.disp) = 0 THEN 0 ELSE ((Len(Top.disp) - 1) \div ExpectedCols) + 1

LayoutComplete == LayoutRunning /\ Len(RowsOf(idx)) = ExpectedRows

(***************************************************************************)
(* C8 as claimed: every emitted row except possibly the last holds exactly *)
(* C fragments.                                                            *)
(***************************************************************************)
C8_RowsFull ==
    LayoutRunning =>
        \A r \in 1..Len(RowsOf(idx)) :
            r < ExpectedRows => Len(RowsOf(idx)[r].cells) = ExpectedCols

(***************************************************************************)
(* C8 as amended: every emitted row holds at least one and at most C       *)
(* fragments, no row holds more fragments than the row above it, any two   *)
(* rows differ by at most one fragment, and the ceil(N / C) rows together  *)
(* hold N fragments.                                                       *)
(***************************************************************************)
C8_RowsBalanced ==
    LayoutRunning =>
        LET rs == RowsOf(idx)
        IN  /\ Len(rs) <= ExpectedRows
            /\ \A r \in 1..Len(rs) :
                 /\ Len(rs[r].cells) >= 1
                 /\ Len(rs[r].cells) <= ExpectedCols
                 /\ \A q \in 1..Len(rs) :
                      q < r => /\ Len(rs[r].cells) <= Len(rs[q].cells)
                               /\ Len(rs[q].cells) - Len(rs[r].cells) <= 1
            /\ Top.i = Len(rs)
            /\ Len(rs) = ExpectedRows => CellsIn(rs, 1) = Len(Top.disp)

\* Five fragments in four columns: two rows, the first with three fragments.
C8_Witness ==
    /\ LayoutComplete
    /\ Len(Top.disp) = 5 /\ ExpectedCols = 4
    /\ Len(RowsOf(idx)) = 2
    /\ Len(RowsOf(idx)[1].cells) = 3
    /\ Len(RowsOf(idx)[2].cells) = 2

(***************************************************************************)
(* C9: with rows = ceil(N / C), row r holds, column by column, the         *)
(* fragments with index r + c * rows that are below N; when all rows are   *)
(* out every fragment is printed exactly once and reading the columns top  *)
(* to bottom, left to right gives the fragments in their sorted order.     *)
(***************************************************************************)
C9_ColumnMajor ==
    LayoutRunning =>
        LET rs == RowsOf(idx)
            n == Len(Top.disp)
        IN  /\ \A r \in 1..Len(rs) :
                 LET here == {c \in 0..(ExpectedCols - 1) : (r - 1) + c * ExpectedRows < n}
                 IN  /\ Len(rs[r].cells) = Cardinality(here)
                     /\ \A c \in 1..Len(rs[r].cells) :
                          /\ (c - 1) \in here
                          /\ rs[r].cells[c].i = (r - 1) + (c - 1) * ExpectedRows
            /\ Len(rs) = ExpectedRows =>
                 /\ \A f \in 0..(n - 1) :
                      Cardinality({rc \in (1..Len(rs)) \X (1..ExpectedCols) :
                                      /\ rc[2] <= Len(rs[rc[1]].cells)
                                      /\ rs[rc[1]].cells[rc[2]].i = f}) = 1
                 /\ ReadColumns(rs, 1, 1) = [k \in 1..n |-> k - 1]

\* Five fragments in two columns and three rows, all printed.
C9_Witness ==
    /\ LayoutComplete
    /\ Len(Top.disp) = 5 /\ ExpectedCols = 2 /\ ExpectedRows = 3
    /\ ReadColumns(RowsOf(idx), 1, 1) = <<0, 1, 2, 3, 4>>

(***************************************************************************)
(* C10: for a string of color codes and printable characters visible_len   *)
(* returns the number of printable characters.                             *)
(***************************************************************************)
C10_VisibleLenCountsChars ==
    vlen # -1 => vlen = Cardinality({k \in 1..Len(text) : text[k].printable})

(***************************************************************************)
(* What a symlink is, read from the directory tree: its target is resolved *)
(* from the directory that holds the link.                                 *)
(***************************************************************************)
TargetResolved(n) == FS[n].link_ok

TargetExists(n) == ExistsFrom(FS[n].parent, FS[n].target)

BrokenLink(n) == FS[n].kind = "symlink" /\ (~TargetResolved(n) \/ ~TargetExists(n))
LiveLink(n) == FS[n].kind = "symlink" /\ TargetResolved(n) /\ TargetExists(n)

\* The displayed entries of the directories read for the root being processed.
Encountered == {n \in Nodes : FS[n].parent \in ReadDirs(idx) /\ Shown(n)}

(***************************************************************************)
(* C11: when a root has been listed, broken_symlinks counts the displayed  *)
(* symlinks whose target could not be resolved or does not exist, and      *)
(* symlinks counts the displayed symlinks whose target was resolved and    *)
(* exists.                                                                 *)
(***************************************************************************)
C11_BrokenSymlinksCounted ==
    (pc = "run" /\ stack = <<>>) =>
        /\ counts["broken_symlinks"] = Cardinality({n \in Encountered : BrokenLink(n)})
        /\ counts["symlinks"] = Cardinality({n \in Encountered : LiveLink(n)})

(***************************************************************************)
(* Tree mode: what the walk was asked for.                                 *)
(***************************************************************************)
TreeMode == Parsed /\ TreeArgIdx # {} /\ RequestedDepth >= 1

CannotAccess(ri, d) ==
    {e \in 1..Len(err) : err[e] = [kind |-> "cannot_access", dir |-> d, root |-> ri]}

\* The tree line of root ri that shows node n.
LineOf(ri, n) == CHOOSE k \in TreeLines(ri) : out[k].node = n

Printed(ri) == {out[k].node : k \in TreeLines(ri)}

(***************************************************************************)
(* C12: in tree mode a subdirectory that is to be descended into and       *)
(* cannot be read has its own line printed and counted, one error reported *)
(* for it and no line for anything below it; the line after it is not      *)
(* deeper than it; and when the root is finished every entry outside its   *)
(* subtree that an empty subdirectory would leave displayed is printed,    *)
(* and every readable directory among them within the depth was visited.   *)
(***************************************************************************)
C12_UnreadableSubdir ==
    TreeMode =>
        \A ri \in 1..Len(paths) :
            /\ \A k \in TreeLines(ri) :
                 LET d == out[k].node
                 IN  (IsDir(d) /\ ~FS[d].readable /\ Level(k) < RequestedDepth) =>
                        /\ Cardinality(CannotAccess(ri, d)) = 1
                        /\ \A j \in TreeLines(ri) : DepthBelow(out[j].node, d) < 1
                        /\ (k + 1) \in TreeLines(ri) => Level(k + 1) <= Level(k)
            /\ Finished(ri) =>
                 /\ Printed(ri) = ExpectedTree(RootNode(ri), RequestedDepth)
                 /\ \A n \in Printed(ri) :
                      (IsDir(n) /\ DepthBelow(n, RootNode(ri)) < RequestedDepth) => WasRead(ri, n)
            /\ (ri = idx /\ pc = "run" /\ stack = <<>>) =>
                 counts["dirs"] = Cardinality({n \in Printed(ri) : IsDir(n)})

\* rdir --tree z: u cannot be read; its line is printed, the error reported, v is
\* not shown, and its later sibling c and its parent's later sibling k follow.
C12_Witness ==
    /\ TreeMode /\ pc = "done" /\ paths = <<"z">>
    /\ {15, 10, 6} \subseteq Printed(1)
    /\ 19 \notin Printed(1)
    /\ Cardinality(CannotAccess(1, 15)) = 1
    /\ LineOf(1, 15) < LineOf(1, 10)
    /\ LineOf(1, 10) < LineOf(1, 6)

(***************************************************************************)
(* Roots.                                                                  *)
(***************************************************************************)
\* The root with index ri cannot be read.
UnreadableRoot(ri) == RootNode(ri) = 0 \/ ~FS[RootNode(ri)].readable \/ FS[RootNode(ri)].kind # "dir"

\* The processing of root ri has begun.
Begun(ri) == ri < idx \/ (ri = idx /\ pc = "run")

\* The output lines of root ri that show entries or a report.
ListedFor(ri) == {k \in 1..Len(out) : out[k].root = ri /\ out[k].kind \in {"tree", "row", "long", "report"}}

\* The roots in the order their directories were opened.
RootCalls == SelectSeq(calls, LAMBDA c : c[2] = RootNode(c[1]))

\* The program is not stuck: main's loops and the calls below them have a next
\* iteration to run or a return to take.
CanStep ==
    \/ pc = "parse"
    \/ pc = "root" /\ idx <= Len(paths)
    \/ /\ pc = "run"
       /\ \/ stack = <<>>
          \/ Top.phase = "read"
          \/ /\ Top.phase = "print"
             /\ Top.i <= (IF Top.fn = "tree" \/ opts.long THEN Len(Top.entries)
                          ELSE Rows(Len(Top.disp), Cols(Top.disp, Top.width, opts.one_per_line)))

(***************************************************************************)
(* C13: a root that cannot be read gets one error and no listed entry; the *)
(* roots are opened one by one in the order given, whatever failed before; *)
(* every readable root is listed in full; and once the arguments are       *)
(* parsed the process can only end with exit code 0: it stops nowhere but  *)
(* at the end of main, and exit code 1 comes with a usage error only.      *)
(***************************************************************************)
C13_UnreadableRoot ==
    /\ Parsed =>
         /\ \A ri \in 1..Len(paths) :
              /\ (Begun(ri) /\ UnreadableRoot(ri)) =>
                    /\ Cardinality(CannotAccess(ri, RootNode(ri))) = 1
                    /\ ListedFor(ri) = {}
              /\ (Finished(ri) /\ ~UnreadableRoot(ri)) =>
                    IF TreeArgIdx # {} /\ RequestedDepth >= 1
                    THEN Printed(ri) = ExpectedTree(RootNode(ri), RequestedDepth)
                    ELSE DisplayedCount(ri) = Cardinality(ExpectedTree(RootNode(ri), 1))
         /\ \A a \in 1..Len(RootCalls) : RootCalls[a][1] = a
         /\ Len(RootCalls) = (IF pc = "run" THEN idx ELSE idx - 1)
         /\ ExitCode \in {-1, 0}
         /\ ExitCode = 0 => idx = Len(paths) + 1
         /\ ExitCode = -1 => CanStep
    /\ ExitCode = 1 => (calls = <<>> /\ out = <<>> /\ err[Len(err)].kind = "usage")

\* rdir nope z: the error for nope, nothing listed for it, z listed, exit code 0.
C13_Witness ==
    /\ ExitCode = 0
    /\ paths = <<"nope", "z">>
    /\ Cardinality(CannotAccess(1, 0)) = 1
    /\ ListedFor(1) = {}
    /\ ListedFor(2) # {}

(***************************************************************************)
(* What belongs to one root.                                               *)
(***************************************************************************)
\* The displayed entries of the directories read for root ri, by Counts field.
EncounteredIn(ri, f) ==
    {n \in Nodes : FS[n].parent \in ReadDirs(ri) /\ Shown(n) /\ FieldOf(n) = f}

\* The Counts a traversal of root ri alone ends with.
CountsOfRoot(ri) == [f \in CountFields |-> Cardinality(EncounteredIn(ri, f))]

ReportsOf(ri) == {k \in 1..Len(out) : out[k].kind = "report" /\ out[k].root = ri}

(***************************************************************************)
(* C14: the roots are processed one after another in argument order: the   *)
(* directories are opened and the output is written root by root; Counts   *)
(* never holds more than the entries met so far for the root in hand; the  *)
(* lines of root i are made with the mapping built for root i (or the      *)
(* empty one without --gs); the report of root i is the one report of that *)
(* root, it comes after every listing line of root i and before anything   *)
(* of root i+1, and it tells the entries of root i only.                   *)
(***************************************************************************)
C14_RootsSequential ==
    Parsed =>
        /\ \A j \in 1..Len(out) : \A k \in 1..Len(out) : j < k => out[j].root <= out[k].root
        /\ \A j \in 1..Len(out) : out[j].root <= idx
        /\ \A a \in 1..Len(calls) : \A b \in 1..Len(calls) : a < b => calls[a][1] <= calls[b][1]
        /\ pc = "run" => \A f \in CountFields : counts[f] <= Cardinality(EncounteredIn(idx, f))
        /\ \A k \in 1..Len(out) :
             out[k].kind \in {"tree", "row", "long"} =>
                out[k].git = (IF Given("--gs") THEN out[k].root ELSE 0)
        /\ \A ri \in 1..Len(paths) :
             /\ Cardinality(ReportsOf(ri)) <= 1
             /\ ReportsOf(ri) # {} => Given("--report") /\ ri < idx
             /\ \A k \in ReportsOf(ri) :
                  /\ out[k].parts = ReportParts(CountsOfRoot(ri))
                  /\ \A j \in 1..Len(out) :
                       (out[j].root = ri /\ out[j].kind \in {"header", "tree", "row", "long"}) => j < k
             /\ (ri < idx /\ Given("--report") /\ ReportParts(CountsOfRoot(ri)) # <<>>) =>
                  ReportsOf(ri) # {}

\* rdir --report . z: each root has its report, of one directory and two files,
\* the first before the header of the second root.
C14_Witness ==
    /\ pc = "done" /\ paths = <<".", "z">>
    /\ \E k \in ReportsOf(1) : \E h \in 1..Len(out) : \E j \in ReportsOf(2) :
         /\ out[h].kind = "header" /\ out[h].root = 2
         /\ k < h /\ h < j
         /\ out[k].parts = << <<"dirs", 1>>, <<"files", 2>> >>
         /\ out[j].parts = << <<"dirs", 1>>, <<"files", 2>> >>

(***************************************************************************)
(* The order of siblings in a tree, read from the command line and the     *)
(* directory tree: directories, then time (with -t, newest first), then    *)
(* lower-cased name.                                                       *)
(***************************************************************************)
TreeGroupKey(n) == IF FS[n].kind = "dir" THEN 0 ELSE 1

TreePrecedes(a, b) ==
    \/ TreeGroupKey(a) < TreeGroupKey(b)
    \/ /\ TreeGroupKey(a) = TreeGroupKey(b)
       /\ \/ TimeKey(a) < TimeKey(b)
          \/ TimeKey(a) = TimeKey(b) /\ StrCmp(LowerName(a), LowerName(b)) = "Less"

\* n is d or lies below d.
Within(n, d) == DepthBelow(n, d) >= 0

(***************************************************************************)
(* C15: the tree lines of a root are in depth-first pre-order: the line of *)
(* an entry comes after the line of its directory, the lines of a          *)
(* directory's subtree follow its line without a line from elsewhere in    *)
(* between, so the whole subtree is out before the next sibling, and       *)
(* siblings appear in their sorted order.                                  *)
(***************************************************************************)
C15_PreOrder ==
    TreeMode =>
        \A ri \in 1..Len(paths) :
            \A k \in TreeLines(ri) :
                LET n == out[k].node
                IN  /\ FS[n].parent # RootNode(ri) =>
                         \E j \in TreeLines(ri) : j < k /\ out[j].node = FS[n].parent
                    /\ \A j \in TreeLines(ri) :
                         j < k =>
                            /\ ~Within(out[j].node, n)
                            /\ \A l \in TreeLines(ri) :
                                 (k < l /\ Within(out[l].node, out[j].node)) =>
                                     Within(n, out[j].node)
                            /\ FS[out[j].node].parent = FS[n].parent =>
                                 ~TreePrecedes(n, out[j].node)

\* rdir --tree: z, then its subtree m, n, u, c, k, and only then a.txt.
C15_Witness ==
    /\ TreeMode /\ pc = "done" /\ paths = <<".">>
    /\ {4, 8, 9, 15, 10, 6, 2} \subseteq Printed(1)
    /\ LineOf(1, 4) < LineOf(1, 8)
    /\ LineOf(1, 8) < LineOf(1, 9)
    /\ LineOf(1, 9) < LineOf(1, 15)
    /\ LineOf(1, 15) < LineOf(1, 10)
    /\ LineOf(1, 10) < LineOf(1, 6)
    /\ LineOf(1, 6) < LineOf(1, 2)

(***************************************************************************)
(* The ancestors of a tree line.                                           *)
(***************************************************************************)
\* The ancestor of n at nesting level i below the directory r.
AncestorAt(n, r, i) == CHOOSE a \in Between(n, r) : DepthBelow(a, r) = i

\* A later line of root ri shows an entry of the same directory as line k.
LaterSibling(ri, k) ==
    \E l \in TreeLines(ri) : l > k /\ FS[out[l].node].parent = FS[out[k].node].parent

(***************************************************************************)
(* C16: a tree line is the inherited prefix and a branch marker, the       *)
(* closing one exactly for the last displayed entry of its directory; the  *)
(* prefix of a line at nesting level k is k-1 continuation segments, one   *)
(* per ancestor below the root from the top down, four spaces where that   *)
(* ancestor's line carries the closing marker and a bar segment otherwise. *)
(***************************************************************************)
C16_Prefixes ==
    TreeMode =>
        \A ri \in 1..Len(paths) :
            \A k \in TreeLines(ri) :
                LET n == out[k].node
                    lvl == DepthBelow(n, RootNode(ri))
                IN  /\ out[k].marker \in {"+-- ", "|-- "}
                    /\ out[k].marker = "+-- " => ~LaterSibling(ri, k)
                    /\ (Finished(ri) /\ out[k].marker = "|-- ") => LaterSibling(ri, k)
                    /\ Len(out[k].prefix) = lvl - 1
                    /\ \A i \in 1..(lvl - 1) :
                         LET a == AncestorAt(n, RootNode(ri), i)
                         IN  /\ a \in Printed(ri)
                             /\ out[k].prefix[i] =
                                  (IF out[LineOf(ri, a)].marker = "+-- " THEN "    " ELSE "|   ")

\* rdir --tree: n lies below z, which is not the last entry of ".", and below m,
\* which is the last directory but not the last entry of z; the line of c,
\* the last entry of m, closes its directory.
C16_Witness ==
    /\ TreeMode /\ pc = "done" /\ paths = <<".">> /\ args = <<Arg("--sf"), Arg("--tree")>>
    /\ {4, 8, 9, 10} \subseteq Printed(1)
    /\ out[LineOf(1, 4)].marker = "|-- " /\ out[LineOf(1, 4)].prefix = <<>>
    /\ out[LineOf(1, 9)].prefix = <<"|   ", "|   ">> /\ out[LineOf(1, 9)].marker = "|-- "
    /\ out[LineOf(1, 10)].prefix = <<"|   ", "|   ">> /\ out[LineOf(1, 10)].marker = "+-- "

(***************************************************************************)
(* The status lines, read as text: a two-character code, one separator and *)
(* a path, or a path, the rename arrow and the new path.                   *)
(***************************************************************************)
GitStates ==
    {"Added", "Modified", "Deleted", "Renamed", "TypeChanged", "Untracked", "Ignored", "None"}

\* The table of the states, applied to the first character of the code that is
\* not a blank.
TableState(line) ==
    LET c == IF line[1] # 32 THEN line[1] ELSE line[2]
    IN  IF c = 65 \/ c = 67 THEN "Added"
        ELSE IF c = 77 THEN "Modified"
        ELSE IF c = 68 THEN "Deleted"
        ELSE IF c = 82 THEN "Renamed"
        ELSE IF c = 84 THEN "TypeChanged"
        ELSE IF c = 63 THEN "Untracked"
        ELSE IF c = 33 THEN "Ignored"
        ELSE "None"

ArrowAt(str, i) == i + 3 <= Len(str) /\ SubSeq(str, i, i + 3) = <<32, 45, 62, 32>>

\* k is the key of the line: all of it after the code and the separator when
\* there is no arrow, else what follows the first arrow.
IsKeyOf(k, line) ==
    LET rest == SubSeq(line, 4, Len(line))
    IN  \/ (\A i \in 1..Len(rest) : ~ArrowAt(rest, i)) /\ k = rest
        \/ \E i \in 1..Len(rest) :
             /\ ArrowAt(rest, i)
             /\ \A j \in 1..(i - 1) : ~ArrowAt(rest, j)
             /\ k = SubSeq(rest, i + 4, Len(rest))

\* The lines gone through so far that make an entry.
EntryLines == {i \in 1..lineno : Len(stdout[i]) >= 3}

UNTRACKED_LINE == <<63, 63, 32, 110, 101, 119, 102, 105, 108, 101, 46, 116, 120, 116>>
RENAME_LINE ==
    <<82, 32, 32, 111, 108, 100, 46, 116, 120, 116, 32, 45, 62, 32, 110, 101, 119, 46, 116,
      120, 116>>
NEWFILE_TXT == <<110, 101, 119, 102, 105, 108, 101, 46, 116, 120, 116>>
NEW_TXT == <<110, 101, 119, 46, 116, 120, 116>>
OLD_TXT == <<111, 108, 100, 46, 116, 120, 116>>

(***************************************************************************)
(* C17: the mapping holds one entry per line of at least three characters  *)
(* gone through, keyed by the path after the code and the separator, or by *)
(* the right-hand side of the rename arrow, a later line replacing an      *)
(* earlier one with the same key; the state follows the table, read from   *)
(* the first character of the code that is not blank; "?? newfile.txt"     *)
(* gives Untracked for newfile.txt, "R  old.txt -> new.txt" gives Renamed  *)
(* for new.txt and nothing for old.txt; a lookup of a path that is not in  *)
(* the mapping gives None.                                                 *)
(***************************************************************************)
C17_StatusParsed ==
    /\ \A k \in DOMAIN map : \E i \in EntryLines : IsKeyOf(k, stdout[i])
    /\ \A i \in EntryLines :
         \E k \in DOMAIN map :
            /\ IsKeyOf(k, stdout[i])
            /\ map[k] \in GitStates
            /\ (\A j \in EntryLines : j > i => ~IsKeyOf(k, stdout[j])) =>
                  map[k] = TableState(stdout[i])
    /\ \A i \in 1..lineno :
         /\ (stdout[i] = UNTRACKED_LINE /\ \A j \in (i + 1)..lineno : stdout[j] # stdout[i]) =>
               NEWFILE_TXT \in DOMAIN map /\ map[NEWFILE_TXT] = "Untracked"
         /\ (stdout[i] = RENAME_LINE /\ \A j \in (i + 1)..lineno : stdout[j] # stdout[i]) =>
               NEW_TXT \in DOMAIN map /\ map[NEW_TXT] = "Renamed"
    /\ OLD_TXT \notin DOMAIN map
    /\ got # <<>> =>
         /\ got[2] \in GitStates
         /\ got[1] \in DOMAIN map => got[2] = map[got[1]]
         /\ got[1] \notin DOMAIN map => got[2] = "None"

\* The two lines of the examples have been read and old.txt, which is not in the
\* mapping, has been looked up.
C17_Witness ==
    /\ pc = "lookup"
    /\ stdout = <<UNTRACKED_LINE, RENAME_LINE>>
    /\ DOMAIN map = {NEWFILE_TXT, NEW_TXT}
    /\ map[NEWFILE_TXT] = "Untracked" /\ map[NEW_TXT] = "Renamed"
    /\ got = <<OLD_TXT, "None">>

(***************************************************************************)
(* C18: the tree walk terminates, for bounded and unbounded depth, on a    *)
(* tree with symlinks to directories and a symlink cycle: only entries     *)
(* that are directories themselves are opened, no directory is opened      *)
(* twice, the calls never nest deeper than the tree, the symlinks within   *)
(* the depth are listed, and the walk ends with every call returned.       *)
(***************************************************************************)
WalkLimit == IF opts.tree_depth.v = USIZE_MAX THEN Len(FS) ELSE opts.tree_depth.v

C18_WalkSafe ==
    /\ \A c \in 1..Len(calls) : FS[calls[c][2]].kind = "dir"
    /\ \A a \in 1..Len(calls) : \A b \in 1..Len(calls) : a # b => calls[a] # calls[b]
    /\ Len(stack) <= Len(FS)
    /\ \A k \in TreeLines(1) : \A j \in TreeLines(1) : out[j].node = out[k].node => j = k
    /\ stack = <<>> => Printed(1) = ExpectedTree(RootNode(1), WalkLimit)

C18_WalkTerminates == []C18_WalkSafe /\ <>[](stack = <<>>)

\* The unbounded walk of "." has returned: c, a symlink to a directory, and l, a
\* symlink that closes a cycle, are listed and were not opened; p, five levels
\* down, is listed.
C18_Witness ==
    /\ stack = <<>> /\ pc = "run" /\ args = <<>>
    /\ opts.tree_depth.v = USIZE_MAX
    /\ paths = <<".">>
    /\ {10, 18, 14} \subseteq Printed(1)
    /\ ~WasRead(1, 10) /\ ~WasRead(1, 18)
    /\ WasRead(1, 12)

(***************************************************************************)
(* The width of an emitted row: its fragments and the padding after them.  *)
(***************************************************************************)
RECURSIVE CellsWidth(_, _, _)
CellsWidth(cells, disp, c) ==
    IF c > Len(cells) THEN 0
    ELSE visible_len(disp[cells[c].i + 1]) + cells[c].pad + CellsWidth(cells, disp, c + 1)

RowWidth(row) == CellsWidth(row.cells, Top.disp, 1)

\* W: the largest visible width plus 2.
ExpectedWidth == MaxLen(Top.disp) + 2

(***************************************************************************)
(* C19: in a short listing without -1, when W <= T every emitted row is at *)
(* most T - 2 wide; W minus the visible width of any fragment is at least  *)
(* 2, and that is the padding after every fragment that is not in the last *)
(* column; a row wider than the terminal is a row of one fragment with     *)
(* W > T.                                                                  *)
(***************************************************************************)
C19_RowsFit ==
    (LayoutRunning /\ ~opts.one_per_line) =>
        /\ \A f \in 1..Len(Top.disp) : ExpectedWidth - visible_len(Top.disp[f]) >= 2
        /\ \A r \in 1..Len(RowsOf(idx)) :
             LET row == RowsOf(idx)[r]
             IN  /\ ExpectedWidth <= Top.width => RowWidth(row) <= Top.width - 2
                 /\ RowWidth(row) > Top.width =>
                       (ExpectedWidth > Top.width /\ Len(row.cells) = 1 /\ ExpectedCols = 1)
                 /\ \A c \in 1..Len(row.cells) :
                       /\ row.cells[c].pad >= 0
                       /\ c < ExpectedCols =>
                            /\ row.cells[c].pad =
                                 ExpectedWidth - visible_len(Top.disp[row.cells[c].i + 1])
                            /\ row.cells[c].pad >= 2
                       /\ c = ExpectedCols => row.cells[c].pad = 0

\* Terminal width 30, fragments up to 9 wide: W = 11, two columns, and a full row
\* of 11 + 9 = 20 <= 28; the narrow fragment in the first column is padded by 9.
C19_Witness ==
    /\ LayoutComplete /\ ~opts.one_per_line
    /\ Top.width = 30 /\ ExpectedWidth = 11 /\ ExpectedCols = 2
    /\ \E r \in 1..Len(RowsOf(idx)) :
         /\ Len(RowsOf(idx)[r].cells) = 2
         /\ RowWidth(RowsOf(idx)[r]) = 20
    /\ \E r \in 1..Len(RowsOf(idx)) : RowsOf(idx)[r].cells[1].pad = 9

(***************************************************************************)
(* C20: in tree mode with -f, whatever the depth, only the root is opened, *)
(* the lines show the root's own entries that are not directories, and     *)
(* when the root is finished they are all of those that pass the hidden    *)
(* filter, each counted, with no directory counted; with -d and -f         *)
(* together, flat or tree, no entry is displayed and Counts stays zero.    *)
(***************************************************************************)
C20_FilesOnlyTree ==
    /\ (TreeMode /\ Given("-f")) =>
         \A ri \in 1..Len(paths) :
            /\ \A c \in 1..Len(calls) : calls[c][1] = ri => calls[c][2] = RootNode(ri)
            /\ \A k \in TreeLines(ri) :
                 /\ FS[out[k].node].parent = RootNode(ri)
                 /\ FS[out[k].node].kind # "dir"
                 /\ out[k].prefix = <<>>
            /\ (Finished(ri) /\ ~UnreadableRoot(ri) /\ ~Given("-d")) =>
                 Printed(ri) = {n \in Nodes : /\ FS[n].parent = RootNode(ri)
                                              /\ Visible(n)
                                              /\ FS[n].kind # "dir"}
            /\ (ri = idx /\ pc = "run") =>
                 /\ counts["dirs"] = 0
                 /\ stack = <<>> => Total(counts) = Cardinality(Printed(ri))
    /\ (Parsed /\ Given("-d") /\ Given("-f")) =>
         /\ \A k \in 1..Len(out) : out[k].kind \notin {"tree", "long", "row", "report"}
         /\ counts = ZeroCounts

\* rdir -f --tree z: k and K are shown; m, a directory, is neither shown nor
\* opened, and nothing below it appears.
C20_Witness ==
    /\ pc = "done" /\ TreeMode /\ Given("-f") /\ RequestedDepth = 3
    /\ paths = <<"z">>
    /\ Printed(1) = {6, 7}
    /\ calls = << <<1, 4>> >>

====
